---- MODULE Spec2Model ----
(***************************************************************************)
(* Model of src/conway.py: the classes ConwayBase and Conway.              *)
(*                                                                         *)
(* A numpy array is a record [shape, data]: shape is <<rows, cols>> and    *)
(* data maps every 0-based index pair of that shape to the integer held    *)
(* there.  A float array is held exactly, as integer numerators in data    *)
(* over the common denominator den (0.05 is 1/20).                         *)
(***************************************************************************)
EXTENDS Integers, Sequences, FiniteSets, TLC

\* ---------------------------------------------------------------- bounds
\* Largest number of rows and of columns of a start grid.
MaxSide == 5
\* A start grid takes every 0/1 pattern on a centred core of at most
\* MaxCells cells; the cells around the core, if any, start dead.
MaxCells == 9
\* Largest number of show_field calls on one instance.
MaxShows == 2
\* Largest number of rows and of columns of a start grid of an instance on
\* which show_field is called.
MaxShownSide == 3
\* Longest row, and largest number of rows, of a non-rectangular argument.
MaxRagged == 2

\* ------------------------------------------------------ program constants
\* 0xFF0000, the colour factor of show_field.
RED == 16711680
\* 0.05, the decay factor of show_field, is 1 / FadeDen.
FadeDen == 20

VARIABLES
    arg,            \* the start_field argument the constructor was called with
    raised,         \* "none", or the exception the constructor raised
    start_field,    \* self.start_field
    current_field,  \* self.current_field
    current_view,   \* self.current_view
    mask,           \* self.mask
    advanced,       \* an update ran since construction or the last reset_field
    shows           \* show_field calls so far

vars == <<arg, raised, start_field, current_field, current_view, mask,
          advanced, shows>>

\* ------------------------------------------------------------ numpy arrays
\* Attribute of an instance that was never built.
None == [shape |-> << >>, data |-> << >>]

\* The index pairs of an array of this shape.
Cells(shape) == (0 .. shape[1] - 1) \X (0 .. shape[2] - 1)

RECURSIVE SumSeq(_)
SumSeq(s) == IF s = << >> THEN 0 ELSE Head(s) + SumSeq(Tail(s))

\* np.sum(a): the elements in row-major order, added up.
NpSum(a) ==
    LET h == a.shape[1]
        w == a.shape[2]
    IN  SumSeq([k \in 1 .. h * w |-> a.data[<<(k - 1) \div w, (k - 1) % w>>]])

\* np.zeros_like(a)
ZerosLike(a) == [shape |-> a.shape, data |-> [c \in Cells(a.shape) |-> 0]]

\* np.array(a, copy=True): a new array with the same shape and contents.
NpArrayCopy(a) == [shape |-> a.shape, data |-> [c \in Cells(a.shape) |-> a.data[c]]]

\* np.roll(a, s, axis): the element at index i moves to index (i + s) mod n.
NpRoll(a, s, axis) ==
    [shape |-> a.shape,
     data  |-> [c \in Cells(a.shape) |->
                  IF axis = 0
                  THEN a.data[<<(c[1] - s) % a.shape[1], c[2]>>]
                  ELSE a.data[<<c[1], (c[2] - s) % a.shape[2]>>]]]

\* Variant of InnerSlice: the slices written [:-1, :-1].
InnerSliceFromZero(shape) ==
    {c \in Cells(shape) : /\ c[1] <= shape[1] - 2
                          /\ c[2] <= shape[2] - 2}

\* a[1:-1, 1:-1]: the index pairs the two slices select.
InnerSlice(shape) ==
    {c \in Cells(shape) : /\ 1 <= c[1] /\ c[1] <= shape[1] - 2
                          /\ 1 <= c[2] /\ c[2] <= shape[2] - 2}

\* ------------------------------------------------- Conway.update_field_slow
\* Variant of SlowNeighbors: the test that skips the cell itself left out.
SlowNeighborsWithSelf(f, col, row) ==
    LET v(i, j) ==
            IF /\ 0 <= col + i /\ col + i < f.shape[1]
               /\ 0 <= row + j /\ row + j < f.shape[2]
            THEN f.data[<<col + i, row + j>>]
            ELSE 0
    IN  v(-1, -1) + v(-1, 0) + v(-1, 1)
      + v(0, -1)  + v(0, 0)  + v(0, 1)
      + v(1, -1)  + v(1, 0)  + v(1, 1)

\* The value living_neighbors has after the two loops over i and j for the
\* cell (col, row): each of the 8 offsets adds the cell it names when that
\* cell is inside the array.
SlowNeighbors(f, col, row) ==
    LET v(i, j) ==
            IF /\ ~(i = 0 /\ j = 0)
               /\ 0 <= col + i /\ col + i < f.shape[1]
               /\ 0 <= row + j /\ row + j < f.shape[2]
            THEN f.data[<<col + i, row + j>>]
            ELSE 0
    IN  v(-1, -1) + v(-1, 0) + v(-1, 1)
      + v(0, -1)  + v(0, 0)  + v(0, 1)
      + v(1, -1)  + v(1, 0)  + v(1, 1)

\* new_field when the loop over np.ndindex(shape) ends: every cell is
\* decided from self.current_field, which the loop never writes.
UpdateFieldSlow(f) ==
    [shape |-> f.shape,
     data  |-> [c \in Cells(f.shape) |->
                  LET n == SlowNeighbors(f, c[1], c[2])
                  IN  IF f.data[c] # 0
                      THEN IF n < 2 \/ n > 3 THEN 0 ELSE f.data[c]
                      ELSE IF n = 3 THEN 1 ELSE f.data[c]]]

\* ------------------------------------------------- Conway.update_field_fast
rolling == << <<0, 1>>, <<1, 1>>, <<1, 0>>, <<1, -1>>,
              <<-1, 1>>, <<-1, 0>>, <<-1, -1>>, <<0, -1>> >>

\* roll_arr: one doubly rolled copy of the field per entry of rolling.
RollArr(f) ==
    [i \in 1 .. Len(rolling) |->
        NpRoll(NpRoll(f, rolling[i][1], 0), rolling[i][2], 1)]

\* living_neighbors = sum(roll_arr), element by element.
LivingNeighbors(f) ==
    LET arr == RollArr(f)
    IN  [c \in Cells(f.shape) |->
            SumSeq([i \in 1 .. Len(arr) |-> arr[i].data[c]])]

\* Variant of Deading: only crowded cells die.
DeadingCrowdedOnly(f, n) ==
    [c \in Cells(f.shape) |-> f.data[c] # 0 /\ n[c] > 3]

\* deading: the boolean array of line 119.
Deading(f, n) ==
    [c \in Cells(f.shape) |-> f.data[c] # 0 /\ (n[c] < 2 \/ n[c] > 3)]

\* Variant of Living: a dead cell with at most 3 living neighbours is born.
LivingUpTo3(f, n) ==
    [c \in Cells(f.shape) |-> f.data[c] = 0 /\ n[c] <= 3]

\* living: the boolean array of line 120.
Living(f, n) ==
    [c \in Cells(f.shape) |-> f.data[c] = 0 /\ n[c] = 3]

\* a[sel] = v: v is written into the elements sel selects, in place.
Assign(a, sel, v) ==
    [shape |-> a.shape,
     data  |-> [c \in Cells(a.shape) |-> IF sel[c] THEN v ELSE a.data[c]]]

\* Variant of UpdateFieldFast: the neighbours are counted again, on the
\* field as written so far, before the births are decided.
UpdateFieldFastRecount(f, m) ==
    LET f1  == Assign(f, Deading(f, LivingNeighbors(f)), 0)
        f2  == Assign(f1, Living(f1, LivingNeighbors(f1)), 1)
    IN  Assign(f2, [c \in Cells(f.shape) |-> m.data[c] = 0], 0)

\* self.current_field after the three in-place writes of lines 121 to 123;
\* both boolean arrays are computed before the first write.
UpdateFieldFast(f, m) ==
    LET n   == LivingNeighbors(f)
        d   == Deading(f, n)
        l   == Living(f, n)
        f1  == Assign(f, d, 0)
        f2  == Assign(f1, l, 1)
    IN  Assign(f2, [c \in Cells(f.shape) |-> m.data[c] = 0], 0)

\* ------------------------------------------------------ ConwayBase.is_empty
\* Variant of IsEmpty: empty in the sense of an array without elements.
IsEmptyNoElements(f) == Cells(f.shape) = {}

IsEmpty(f) == NpSum(f) = 0

\* -------------------------------------------------------- Conway.show_field
\* 0.05 * self.current_view + 1 * self.current_field, over the denominator
\* FadeDen * view.den.
Fade(view, f) ==
    [shape |-> view.shape,
     den   |-> FadeDen * view.den,
     data  |-> [c \in Cells(view.shape) |->
                  view.data[c] + FadeDen * view.den * f.data[c]]]

RECURSIVE Gcd(_, _)
Gcd(a, b) == IF b = 0 THEN a ELSE Gcd(b, a % b)

\* np.array(0xFF0000 * view), the array show_field returns: the product,
\* with the factor common to RED and the denominator cancelled.
Scaled(view) ==
    LET g == Gcd(RED, view.den)
    IN  [shape |-> view.shape,
         den   |-> view.den \div g,
         data  |-> [c \in Cells(view.shape) |-> (RED \div g) * view.data[c]]]

\* ------------------------------------------------------------- constructor
\* self.current_view after line 88.
ViewOf(f) == [shape |-> f.shape, den |-> 1, data |-> ZerosLike(f).data]

\* self.mask after lines 89 and 90.
MaskOf(view) ==
    [shape |-> view.shape,
     data  |-> [c \in Cells(view.shape) |->
                  IF c \in InnerSlice(view.shape) THEN 1 ELSE 0]]

\* A two-dimensional ndarray, as opposed to a nested list with rows of
\* different lengths.
IsNdarray(a) == Len(a.shape) = 2

\* What Conway(a) can do.  A two-dimensional array of any shape, the empty
\* ones included, passes every line of both constructors.  A list with rows
\* of different lengths makes np.array raise ValueError at line 74, or, with
\* a numpy that still builds a one-dimensional object array from it, makes
\* the two-dimensional slice of line 90 raise IndexError.
CtorOutcomes(a) == IF IsNdarray(a) THEN {"none"} ELSE {"ValueError", "IndexError"}

\* ------------------------------------------------------ constructor inputs
\* Width of the dead margin of a start grid of h rows and w columns.
RECURSIVE Peel(_, _, _)
Peel(h, w, m) ==
    IF h - 2 * m <= 0 \/ w - 2 * m <= 0 \/ (h - 2 * m) * (w - 2 * m) <= MaxCells
    THEN m
    ELSE Peel(h, w, m + 1)

Core(shape) ==
    LET m == Peel(shape[1], shape[2], 0)
    IN  {c \in Cells(shape) : /\ m <= c[1] /\ c[1] <= shape[1] - 1 - m
                              /\ m <= c[2] /\ c[2] <= shape[2] - 1 - m}

\* Every 0/1 array of the shape whose live cells lie in the core.
Grids(shape) ==
    {[shape |-> shape,
      data  |-> [c \in Cells(shape) |-> IF c \in Core(shape) THEN p[c] ELSE 0]] :
        p \in [Core(shape) -> {0, 1}]}

Rows == UNION {[1 .. n -> {0, 1}] : n \in 0 .. MaxRagged}

\* Nested lists whose rows do not all have the same length.
Ragged ==
    {[shape |-> <<Len(r)>>, data |-> r] :
        r \in {q \in UNION {[1 .. n -> Rows] : n \in 2 .. MaxRagged} :
                  \E i, j \in DOMAIN q : Len(q[i]) # Len(q[j])}}

\* The start grids of at most n rows and n columns.
GridsUpTo(n) == UNION {Grids(s) : s \in (0 .. n) \X (0 .. n)}

Arguments == GridsUpTo(MaxSide) \cup Ragged

\* ------------------------------------------------------------------- state
\* The state Conway(a) leaves, for an argument a of args.
Constructed(args) ==
    \E a \in args : \E e \in CtorOutcomes(a) :
        /\ arg = a
        /\ raised = e
        /\ start_field = IF e = "none" THEN a ELSE None
        /\ current_field = IF e = "none" THEN NpArrayCopy(a) ELSE None
        /\ current_view = IF e = "none" THEN ViewOf(NpArrayCopy(a)) ELSE None
        /\ mask = IF e = "none" THEN MaskOf(ViewOf(NpArrayCopy(a))) ELSE None
        /\ advanced = FALSE
        /\ shows = 0

Init == Constructed(Arguments)

\* The instances on which show_field is called as well.
InitShown == Constructed(GridsUpTo(MaxShownSide))

\* Variant of UpdateField: the in-place writes land in self.start_field
\* too, as they do when current_field is not a copy of it.
UpdateFieldShared ==
    /\ raised = "none"
    /\ current_field' = UpdateFieldFast(current_field, mask)
    /\ start_field' = current_field'
    /\ advanced' = TRUE
    /\ UNCHANGED <<arg, raised, current_view, mask, shows>>

\* Conway.update_field: update_field_fast on self.current_field.
UpdateField ==
    /\ raised = "none"
    /\ current_field' = UpdateFieldFast(current_field, mask)
    /\ advanced' = TRUE
    /\ UNCHANGED <<arg, raised, start_field, current_view, mask, shows>>

\* Conway.update_field_slow, called directly.
UpdateFieldSlowCall ==
    /\ raised = "none"
    /\ current_field' = UpdateFieldSlow(current_field)
    /\ advanced' = TRUE
    /\ UNCHANGED <<arg, raised, start_field, current_view, mask, shows>>

\* ConwayBase.reset_field
ResetField ==
    /\ raised = "none"
    /\ current_field' = NpArrayCopy(start_field)
    /\ advanced' = FALSE
    /\ UNCHANGED <<arg, raised, start_field, current_view, mask, shows>>

\* Variant of ShowField: the blend is stored in self.current_field.
ShowFieldIntoField ==
    /\ raised = "none"
    /\ shows < MaxShows
    /\ current_field' = [shape |-> current_field.shape,
                         data  |-> Fade(current_view, current_field).data]
    /\ shows' = shows + 1
    /\ UNCHANGED <<arg, raised, start_field, current_view, mask, advanced>>

\* Conway.show_field; it returns Scaled(current_view').
ShowField ==
    /\ raised = "none"
    /\ shows < MaxShows
    /\ current_view' = Fade(current_view, current_field)
    /\ shows' = shows + 1
    /\ UNCHANGED <<arg, raised, start_field, current_field, mask, advanced>>

\* The calls that advance and restore the field.
Next == UpdateField \/ ResetField

Spec == Init /\ [][Next]_vars

\* The two update methods, each a way to advance the field, and reset_field.
NextBoth == UpdateField \/ UpdateFieldSlowCall \/ ResetField

SpecBoth == Init /\ [][NextBoth]_vars

\* The calls a display loop makes on an instance.
NextShown == UpdateField \/ ResetField \/ ShowField

SpecShown == InitShown /\ [][NextShown]_vars

\* ------------------------------------------------------------- properties
\* The outermost ring of a shape, and the cells inside it.
Ring(shape) ==
    {c \in Cells(shape) : \/ c[1] = 0 \/ c[1] = shape[1] - 1
                          \/ c[2] = 0 \/ c[2] = shape[2] - 1}

Inside(shape) == Cells(shape) \ Ring(shape)

Offsets == ((-1 .. 1) \X (-1 .. 1)) \ {<<0, 0>>}

\* Live cells among the 8 neighbours of a cell inside the ring.
LiveAround(f, c) ==
    Cardinality({d \in Offsets : f.data[<<c[1] + d[1], c[2] + d[2]>>] = 1})

\* Conway's rule for one cell of the grid f.
ConwayRule(f, c) ==
    LET n == LiveAround(f, c)
    IN  IF f.data[c] = 1 /\ (n < 2 \/ n > 3) THEN 0
        ELSE IF f.data[c] = 0 /\ n = 3 THEN 1
        ELSE f.data[c]

AllDead(f) == \A c \in Cells(f.shape) : f.data[c] = 0

Built == raised = "none"

\* A step that is a call of an update method, and one that is show_field.
UpdateStep == advanced' /\ shows' = shows

ShowStep == shows' = shows + 1

\* C1: one update_field sets every cell inside the ring to Conway's rule
\* applied to the grid as it was before the call.
C1_RuleOnOldGrid ==
    [][UpdateStep =>
         \A c \in Inside(current_field.shape) :
             current_field'.data[c] = ConwayRule(current_field, c)]_vars

\* The field one update after a start grid in which one cell died of
\* crowding, one of loneliness, one was born and one stayed alive.
C1_Witness ==
    /\ Built /\ advanced
    /\ current_field = UpdateFieldFast(start_field, mask)
    /\ \E c \in Inside(start_field.shape) :
           start_field.data[c] = 1 /\ LiveAround(start_field, c) > 3
           /\ current_field.data[c] = 0
    /\ \E c \in Inside(start_field.shape) :
           start_field.data[c] = 1 /\ LiveAround(start_field, c) < 2
           /\ current_field.data[c] = 0
    /\ \E c \in Inside(start_field.shape) :
           start_field.data[c] = 0 /\ LiveAround(start_field, c) = 3
           /\ current_field.data[c] = 1
    /\ \E c \in Inside(start_field.shape) :
           start_field.data[c] = 1 /\ LiveAround(start_field, c) \in {2, 3}
           /\ current_field.data[c] = 1

\* C2: whichever update method advances the field, every cell inside the
\* ring gets the value update_field_slow and update_field_fast both give.
C2_SlowFastAgreeInside ==
    [][UpdateStep =>
         \A c \in Inside(current_field.shape) :
             /\ current_field'.data[c] = UpdateFieldSlow(current_field).data[c]
             /\ current_field'.data[c] = UpdateFieldFast(current_field, mask).data[c]]_vars

\* update_field_slow has advanced a start grid on which the shifts wrap
\* live cells around (a ring cell counts differently in the two methods),
\* a cell inside the ring changed, and the two results differ on the ring.
C2_Witness ==
    /\ Built /\ advanced
    /\ current_field = UpdateFieldSlow(start_field)
    /\ current_field # UpdateFieldFast(start_field, mask)
    /\ \E c \in Ring(start_field.shape) :
           LivingNeighbors(start_field)[c] # SlowNeighbors(start_field, c[1], c[2])
    /\ \E c \in Inside(start_field.shape) :
           current_field.data[c] # start_field.data[c]

\* The grid of the shape whose live cells are the three cells of the row
\* (resp. column) through ctr.
HBlinker(shape, ctr) ==
    [shape |-> shape,
     data  |-> [c \in Cells(shape) |->
                  IF c[1] = ctr[1] /\ c[2] \in {ctr[2] - 1, ctr[2], ctr[2] + 1}
                  THEN 1 ELSE 0]]

VBlinker(shape, ctr) ==
    [shape |-> shape,
     data  |-> [c \in Cells(shape) |->
                  IF c[2] = ctr[2] /\ c[1] \in {ctr[1] - 1, ctr[1], ctr[1] + 1}
                  THEN 1 ELSE 0]]

\* The cells at least two cells away from every edge.
Centres(shape) ==
    {c \in Cells(shape) : /\ 2 <= c[1] /\ c[1] <= shape[1] - 3
                          /\ 2 <= c[2] /\ c[2] <= shape[2] - 3}

\* C3: started as a horizontal blinker centred at least two cells from
\* every edge, the field is the vertical blinker after the update_field
\* that follows the horizontal one and the horizontal one again after the
\* update_field that follows the vertical one, and is_empty is false
\* before and after each of these calls.
C3_Blinker ==
    [][UpdateStep =>
         \A ctr \in Centres(start_field.shape) :
             start_field = HBlinker(start_field.shape, ctr) =>
                 /\ current_field = HBlinker(start_field.shape, ctr)
                        => current_field' = VBlinker(start_field.shape, ctr)
                 /\ current_field = VBlinker(start_field.shape, ctr)
                        => current_field' = HBlinker(start_field.shape, ctr)
                 /\ current_field \in {HBlinker(start_field.shape, ctr),
                                       VBlinker(start_field.shape, ctr)}
                 /\ ~IsEmpty(current_field)
                 /\ ~IsEmpty(current_field')]_vars

\* The 5x5 instance, back at the start grid after updates.
C3_Witness ==
    /\ Built /\ advanced
    /\ start_field = HBlinker(<<5, 5>>, <<2, 2>>)
    /\ current_field = start_field
    /\ UpdateFieldFast(start_field, mask) = VBlinker(<<5, 5>>, <<2, 2>>)

\* C4: once update_field has run since construction or the last
\* reset_field, every cell of the outermost ring is 0, and a grid with
\* fewer than 3 rows or fewer than 3 columns is all dead.
C4_RingDead ==
    (Built /\ advanced) =>
        /\ \A c \in Ring(current_field.shape) : current_field.data[c] = 0
        /\ (current_field.shape[1] < 3 \/ current_field.shape[2] < 3)
               => AllDead(current_field)

\* The field one update after a start grid with a dead ring cell whose
\* rolled neighbour count was 3, so that the rule gave it life, and with a
\* ring cell that the rule kept alive.
C4_Witness ==
    /\ Built /\ advanced
    /\ current_field = UpdateFieldFast(start_field, mask)
    /\ \E c \in Ring(start_field.shape) :
           start_field.data[c] = 0 /\ LivingNeighbors(start_field)[c] = 3
    /\ \E c \in Ring(start_field.shape) :
           start_field.data[c] = 1 /\ LivingNeighbors(start_field)[c] \in {2, 3}
    /\ \A c \in Ring(current_field.shape) : current_field.data[c] = 0

\* C5, as claimed: an empty or non-rectangular start grid makes the
\* constructor fail and leaves no instance (any exception is taken for the
\* InvalidInput error).
C5_InvalidInput ==
    (~IsNdarray(arg) \/ Cells(arg.shape) = {}) =>
        (raised # "none" /\ start_field = None)

\* C6: start_field is the grid given at construction in every state, and
\* after construction or reset_field, until the next update, current_field
\* is that grid too.
C6_ResetRestores ==
    Built => /\ start_field = arg
             /\ ~advanced => current_field = arg

\* The one show_field call so far rendered another grid than the start
\* grid, so an update came before it and a reset after it.
C6_Witness ==
    /\ Built /\ ~advanced /\ shows = 1
    /\ current_view # Fade(ViewOf(start_field), start_field)
    /\ current_field = arg

\* C7: every cell of current_field is 0 or 1, and is_empty is true exactly
\* when every cell is 0.
C7_BinaryAndIsEmpty ==
    Built => /\ \A c \in Cells(current_field.shape) : current_field.data[c] \in {0, 1}
             /\ IsEmpty(current_field) <=> AllDead(current_field)

\* A grid with elements that died out under update_field, with a show_field
\* call made as well.
C7_Witness ==
    /\ Built /\ advanced /\ shows >= 1
    /\ ~AllDead(start_field)
    /\ Cells(current_field.shape) # {}
    /\ IsEmpty(current_field)

\* C8: an all-dead start grid stays all dead, with is_empty true.
C8_DeadStaysDead ==
    (Built /\ AllDead(start_field)) =>
        (AllDead(current_field) /\ IsEmpty(current_field))

\* The all-dead 5x5 grid after update_field.
C8_Witness ==
    /\ Built /\ advanced
    /\ start_field.shape = <<5, 5>>
    /\ AllDead(start_field)
    /\ AllDead(current_field)

\* C9, as claimed: every show_field call returns 0xFF0000 for each live
\* cell and 0 for each dead cell of the current grid.
C9_DirectMode ==
    [][ShowStep =>
         LET img == Scaled(current_view')
         IN  \A c \in Cells(current_field.shape) :
                 img.data[c] = RED * current_field.data[c] * img.den]_vars

\* C10: show_field leaves current_field, start_field and the position in
\* the update cycle alone, and a call that advances or resets the field
\* leaves current_view alone.
C10_TrailApart ==
    [][/\ ShowStep => UNCHANGED <<current_field, start_field, advanced>>
       /\ (advanced' # advanced \/ current_field' # current_field)
              => UNCHANGED <<current_view, shows>>]_vars

\* After a reset the trail still holds a cell that is dead in the start
\* grid and was alive only in a later generation.
C10_Witness ==
    /\ Built /\ ~advanced /\ shows >= 1
    /\ current_field = start_field
    /\ \E c \in Cells(start_field.shape) :
           start_field.data[c] = 0 /\ current_view.data[c] > 0

====
